---- MODULE Spec2Model ----
(***************************************************************************)
(* Model of pdf-booklet-converter.py: the imposition pipeline of           *)
(* create_booklet_pdf (page-count padding, signature ranges, the spread    *)
(* loop, the structural save and the pikepdf pass) followed by the         *)
(* size-driven optimisation stages of main().                              *)
(*                                                                         *)
(* The PDF engines (PyMuPDF, pikepdf) are external: every call into them   *)
(* that can raise is modelled as succeeding or raising, and a save that    *)
(* raises leaves the file at its path either untouched or partly written,  *)
(* since every save of the program writes in place to output_pdf_path.     *)
(* File sizes are byte counts; the program's division of both sizes by     *)
(* 1024*1024 does not change any comparison between them.                  *)
(***************************************************************************)
EXTENDS Integers, Sequences, FiniteSets, TLC

\* ---------------------------------------------------------------- bounds
MaxPages == 9      \* input documents have 0..MaxPages pages
MaxSig == 8        \* largest "pages per signature" value passed in
MaxNegSig == 8     \* signatures ranges over -MaxNegSig..MaxSig
MaxSize == 6       \* file sizes range over 1..MaxSize
MaxOrig == 2       \* the input file's size ranges over 1..MaxOrig

\* ------------------------------------------------------ program constants
MinQuality == 25       \* "Image Quality" slider, min_value
MaxQuality == 100      \* "Image Quality" slider, max_value; also the value
                       \* image_quality takes when optimisation is off
Stage3Factor == 2      \* output_size > original_size * 2
Stage4Factor == 3      \* output_size > original_size * 3
StatusFactor == 3      \* "Good" if size_ratio < 3

Blank == -1            \* a half of a spread with no page placed in it

\* -------------------------------------------------------------- helpers
\* Python's // : floor division, for either sign of the divisor.
FloorDiv(a, b) == IF b > 0 THEN a \div b ELSE (-a) \div (-b)

Min(a, b) == IF a < b THEN a ELSE b

\* range(n) has n elements for n > 0 and none otherwise.
RangeLen(n) == IF n > 0 THEN n ELSE 0

\* ------------------------------------------------- calculate_booklet_page_count
\* The padding with + 4 in place of + 3 (a multiple of 4 gains a sheet).
calculate_booklet_page_count_plus4(page_count) == FloorDiv(page_count + 4, 4) * 4

calculate_booklet_page_count(page_count) == FloorDiv(page_count + 3, 4) * 4

\* --------------------------------------------------------- signature planning
\* The signature size taken as given, not rounded up to a multiple of 4.
signature_size_unrounded(sigs) == sigs

\* signature_size = (signatures + 3) // 4 * 4
signature_size(sigs) == FloorDiv(sigs + 3, 4) * 4

\* signature_count = (total_pages + signature_size - 1) // signature_size
signature_count(total, size) == FloorDiv(total + size - 1, size)

\* The pass without the min() that clamps the last range to total_pages.
signature_range_unclamped(i, total, size) == <<i * size, i * size + size>>

\* One pass of the body of "for i in range(signature_count)", i from 0.
signature_range(i, total, size) ==
    LET start == i * size
        end0  == Min(start + size, total)
        end   == IF (end0 - start) % 4 # 0
                 THEN start + (FloorDiv(end0 - start + 3, 4) * 4)
                 ELSE end0
    IN  <<start, end>>

\* The list signature_ranges built when signatures is not None and
\* signature_size is not 0.
split_ranges(total, sigs) ==
    LET size == signature_size(sigs)
        cnt  == RangeLen(signature_count(total, size))
    IN  [k \in 1..cnt |-> signature_range(k - 1, total, size)]

\* ------------------------------------------------------------ spread loop
\* The left index stepping by 2 per pair.
left_idx_inward(sig_start, sig_pages, i) == sig_start + sig_pages - 1 - 2 * i

left_idx(sig_start, sig_pages, i) == sig_start + sig_pages - 1 - i

right_idx(sig_start, i) == sig_start + i

\* The bound test written <= in place of <.
placed_inclusive(idx, page_count) == IF idx <= page_count THEN idx ELSE Blank

\* "if idx < input_page_count: show_pdf_page(rect, input_doc, idx)"
placed(idx, page_count) == IF idx < page_count THEN idx ELSE Blank

\* --------------------------------------------------------------- geometry
\* Lengths are held in units of 1/Scale of the program's unit, which makes
\* 215.9, 279.4, 355.6 and 72 / 25.4 whole numbers.
Scale == 1270

mark_length == 10      \* "mark_length = 10  # mm"

\* page_size.upper() for the names the page-size widget offers
Upper(name) ==
    CASE name = "Letter" -> "LETTER"
      [] name = "Legal"  -> "LEGAL"
      [] OTHER           -> name

\* page_width, page_height of the if / elif chain; any other name is A4.
page_dimensions(name) ==
    CASE Upper(name) = "A4"     -> <<210 * Scale, 297 * Scale>>
      [] Upper(name) = "LETTER" -> <<(2159 * Scale) \div 10, (2794 * Scale) \div 10>>
      [] Upper(name) = "LEGAL"  -> <<(2159 * Scale) \div 10, (3556 * Scale) \div 10>>
      [] OTHER                  -> <<210 * Scale, 297 * Scale>>

\* spread_width = page_width * 2 + binding_margin * 2 + bleed * 2
spread_width(pw, bm, b) == (pw * 2) + (bm * 2) + (b * 2)

\* spread_height = page_height + bleed * 2
spread_height(ph, b) == ph + (b * 2)

\* fitz.Rect(x0, y0, x1, y1) of the left and of the right half
left_rect(b, pw, ph) == <<b, b, b + pw, b + ph>>

right_rect(b, pw, ph, bm) ==
    <<b + pw + bm * 2, b, b + pw * 2 + bm * 2, b + ph>>

\* ml = mark_length * 72 / 25.4
ml == (mark_length * 720 * Scale) \div 254

\* The draw_line calls of one spread, in order, each <<x0, y0, x1, y1>>.
crop_mark_lines(b, pw, ph, bm) ==
    LET right_x == b + pw + bm * 2
    IN  << <<b - ml, b, b, b>>,
           <<b, b - ml, b, b>>,
           <<b + pw, b - ml, b + pw, b>>,
           <<b + pw + ml, b, b + pw, b>>,
           <<b - ml, b + ph, b, b + ph>>,
           <<b, b + ph + ml, b, b + ph>>,
           <<b + pw, b + ph + ml, b + pw, b + ph>>,
           <<b + pw + ml, b + ph, b + pw, b + ph>>,
           <<right_x - ml, b, right_x, b>>,
           <<right_x, b - ml, right_x, b>>,
           <<right_x + pw, b - ml, right_x + pw, b>>,
           <<right_x + pw + ml, b, right_x + pw, b>>,
           <<right_x - ml, b + ph, right_x, b + ph>>,
           <<right_x, b + ph + ml, right_x, b + ph>>,
           <<right_x + pw, b + ph + ml, right_x + pw, b + ph>>,
           <<right_x + pw + ml, b + ph, right_x + pw, b + ph>> >>

\* --------------------------------------------------------- stage conditions
\* The raster pass condition without its image_quality conjunct.
stage3_condition_size_only(out_size, orig_size, quality) ==
    out_size > orig_size * Stage3Factor

\* "if output_size > original_size * 2 and image_quality < 100"
stage3_condition(out_size, orig_size, quality) ==
    out_size > orig_size * Stage3Factor /\ quality < MaxQuality

\* "if output_size > original_size * 3"
stage4_condition(out_size, orig_size) == out_size > orig_size * Stage4Factor

\* The status with <= in place of <.
size_status_inclusive(out_size, orig_size) ==
    IF out_size <= StatusFactor * orig_size THEN "Good" ELSE "Large"

\* size_status of "size_ratio = output_size / original_size"
size_status(out_size, orig_size) ==
    IF out_size < StatusFactor * orig_size THEN "Good" ELSE "Large"

\* ------------------------------------------------------------------ state
VARIABLES
    input_page_count,   \* len(input_doc)
    use_signatures,     \* FALSE: signatures is None
    signatures,         \* "Pages per Signature" (any integer), if used
    optimize_images,    \* the "Optimize Images" checkbox
    image_quality,      \* the quality passed to the JPEG encoder
    original_size,      \* size of the input file
    page_size,          \* the "Page Size" selection
    binding_margin,     \* "Binding Margin (mm)"
    bleed,              \* "Bleed Area (mm)"
    crop_marks,         \* the "Add Crop Marks" checkbox
    pc,                 \* position in create_booklet_pdf / main
    total_pages,        \* padded page count
    signature_ranges,   \* sequence of <<start, end>>
    sig,                \* 1-based index of the signature being rendered
    i,                  \* loop variable of the spread loop
    doc,                \* output document: the sequence of spreads
    file,               \* what is stored at output_pdf_path
    last_good,          \* the file as the last successful stage left it
    output_size,        \* main's variable output_size
    failure,            \* where stage 1 raised, "none" if it did not
    stage_ran,          \* optimiser stages entered (2, 3, 4)
    stage_failed,       \* optimiser stages that raised
    evaluated,          \* stage conditions main has evaluated (3, 4)
    size12,             \* the size measured after create_booklet_pdf
    test4,              \* the stage-4 test: value used, size on disk, outcome
    result,             \* "none", "success" or "error"
    reported,           \* the size metrics shown with the success message
    handles             \* the document handles opened and not yet released

vars == <<input_page_count, use_signatures, signatures, optimize_images,
          image_quality, original_size, page_size, binding_margin, bleed,
          crop_marks, pc, total_pages, signature_ranges,
          sig, i, doc, file, last_good, output_size, failure, stage_ran,
          stage_failed, evaluated, size12, test4, result, reported,
          handles>>

inputs == <<input_page_count, use_signatures, signatures, optimize_images,
            image_quality, original_size, page_size, binding_margin, bleed,
            crop_marks>>

plan == <<total_pages, signature_ranges, sig, i, doc>>

history == <<stage_ran, stage_failed, evaluated, size12, test4>>

NoFile == [state |-> "none", stage |-> 0, size |-> 0]
NoTest == [used |-> 0, on_disk |-> 0, run |-> FALSE]
NoReport == [size |-> 0, original |-> 0, status |-> "none"]

Sizes == 1..MaxSize

\* A complete file written by the given stage.
Complete(stage, size) == [state |-> "complete", stage |-> stage, size |-> size]

\* What a save that raised part-way leaves at the path.
Partial(stage, size) == [state |-> "partial", stage |-> stage, size |-> size]

\* The image-quality widget: a slider 25..100 when the box is ticked, else 100.
Qualities(optimize) ==
    IF optimize THEN {MinQuality, MaxQuality - 1, MaxQuality} ELSE {MaxQuality}

\* The state in which create_booklet_pdf is entered.
Start ==
    /\ pc = "open"
    /\ total_pages = 0
    /\ signature_ranges = <<>>
    /\ sig = 1
    /\ i = 0
    /\ doc = <<>>
    /\ file = NoFile
    /\ last_good = NoFile
    /\ output_size = 0
    /\ failure = "none"
    /\ stage_ran = {}
    /\ stage_failed = {}
    /\ evaluated = {}
    /\ size12 = 0
    /\ test4 = NoTest
    /\ result = "none"
    /\ reported = NoReport
    /\ handles = {}

\* The page sizes the widget offers, and a name the function does not know.
PageSizes == {"A4", "Letter", "Legal", "A5"}

\* Binding margins and bleeds, in mm: the sliders' ends and defaults, and
\* values on both sides of the mark length of 28.3.
BindingMargins == {0, 10, 14, 15, 30}
Bleeds == {0, 3, 10, 30}

\* A conversion with the geometry widgets left at their defaults.
Init ==
    /\ input_page_count \in 0..MaxPages
    /\ use_signatures \in BOOLEAN
    /\ signatures \in (IF use_signatures THEN (0 - MaxNegSig)..MaxSig ELSE {0})
    /\ optimize_images \in BOOLEAN
    /\ image_quality \in Qualities(optimize_images)
    /\ original_size \in 1..MaxOrig
    /\ page_size = "A4"
    /\ binding_margin = 10
    /\ bleed = 3
    /\ crop_marks = FALSE
    /\ Start

\* A conversion with any geometry, the optimiser widgets at their defaults.
InitGeometry ==
    /\ input_page_count \in 0..MaxPages
    /\ use_signatures \in BOOLEAN
    /\ signatures \in (IF use_signatures THEN (0 - MaxNegSig)..MaxSig ELSE {0})
    /\ optimize_images = TRUE
    /\ image_quality = 80
    /\ original_size = 1
    /\ page_size \in PageSizes
    /\ binding_margin \in BindingMargins
    /\ bleed \in Bleeds
    /\ crop_marks \in BOOLEAN
    /\ Start

\* A document handle is opened / released (close(), or the end of a with).
Acquire(h, hs) == hs \cup {h}
Release(h, hs) == hs \ {h}

\* ------------------------------------------------------- create_booklet_pdf
\* An exception inside the outer try: st.error, then raise.
Raise(where) ==
    /\ pc' = "failed"
    /\ failure' = where

\* fitz.open(input_pdf_path), len(input_doc), calculate_booklet_page_count.
OpenSource ==
    /\ pc = "open"
    /\ total_pages' = calculate_booklet_page_count(input_page_count)
    /\ pc' = "plan"
    /\ UNCHANGED <<inputs, signature_ranges, sig, i, doc, file, last_good,
                   output_size, failure, history, result, reported>>
    \* input_doc = fitz.open(input_pdf_path); doc = fitz.open()
    /\ handles' = Acquire("doc", Acquire("input_doc", handles))

\* fitz.open raises: the source cannot be opened.
OpenSourceFails ==
    /\ pc = "open"
    /\ Raise("open")
    /\ UNCHANGED <<inputs, plan, file, last_good, output_size, history,
                   result, reported>>
    /\ UNCHANGED handles

\* "if signatures is None: signature_ranges = [(0, total_pages)]"
PlanSingle ==
    /\ pc = "plan"
    /\ ~use_signatures
    /\ signature_ranges' = << <<0, total_pages>> >>
    /\ pc' = "render"
    /\ UNCHANGED <<inputs, total_pages, sig, i, doc, file, last_good,
                   output_size, failure, history, result, reported>>
    /\ UNCHANGED handles

\* The else branch, when the division by signature_size is defined.
PlanSplit ==
    /\ pc = "plan"
    /\ use_signatures
    /\ signature_size(signatures) # 0
    /\ signature_ranges' = split_ranges(total_pages, signatures)
    /\ pc' = "render"
    /\ UNCHANGED <<inputs, total_pages, sig, i, doc, file, last_good,
                   output_size, failure, history, result, reported>>
    /\ UNCHANGED handles

\* The else branch, when signature_size is 0: ZeroDivisionError.
PlanDivisionByZero ==
    /\ pc = "plan"
    /\ use_signatures
    /\ signature_size(signatures) = 0
    /\ Raise("plan")
    /\ UNCHANGED <<inputs, plan, file, last_good, output_size, history,
                   result, reported>>
    /\ UNCHANGED handles

sig_start == signature_ranges[sig][1]
sig_end == signature_ranges[sig][2]
sig_pages == sig_end - sig_start

\* One pass of "for i in range(sig_pages // 2)": new_page and both halves.
RenderSpread ==
    /\ pc = "render"
    /\ sig <= Len(signature_ranges)
    /\ i < FloorDiv(sig_pages, 2)
    /\ LET l  == left_idx(sig_start, sig_pages, i)
           r  == right_idx(sig_start, i)
           pw == page_dimensions(page_size)[1]
           ph == page_dimensions(page_size)[2]
       IN  doc' = Append(doc, [sig |-> sig, pair |-> i,
                               left_idx |-> l, right_idx |-> r,
                               left |-> placed(l, input_page_count),
                               right |-> placed(r, input_page_count),
                               width |-> spread_width(pw, binding_margin * Scale,
                                                      bleed * Scale),
                               height |-> spread_height(ph, bleed * Scale),
                               lines |-> IF crop_marks
                                         THEN crop_mark_lines(bleed * Scale, pw, ph,
                                                              binding_margin * Scale)
                                         ELSE <<>>])
    /\ i' = i + 1
    /\ UNCHANGED <<inputs, pc, total_pages, signature_ranges, sig, file,
                   last_good, output_size, failure, history, result, reported>>
    /\ UNCHANGED handles

\* new_page or show_pdf_page raises during a pass of the loop.
RenderFails ==
    /\ pc = "render"
    /\ sig <= Len(signature_ranges)
    /\ i < FloorDiv(sig_pages, 2)
    /\ Raise("render")
    /\ UNCHANGED <<inputs, plan, file, last_good, output_size, history,
                   result, reported>>
    /\ UNCHANGED handles

\* The inner loop is exhausted: next element of signature_ranges.
NextSignature ==
    /\ pc = "render"
    /\ sig <= Len(signature_ranges)
    /\ i >= FloorDiv(sig_pages, 2)
    /\ sig' = sig + 1
    /\ i' = 0
    /\ UNCHANGED <<inputs, pc, total_pages, signature_ranges, doc, file,
                   last_good, output_size, failure, history, result, reported>>
    /\ UNCHANGED handles

\* The outer loop is exhausted.
EndRender ==
    /\ pc = "render"
    /\ sig > Len(signature_ranges)
    /\ pc' = "save"
    /\ UNCHANGED <<inputs, plan, file, last_good, output_size, failure,
                   history, result, reported>>
    /\ UNCHANGED handles

\* doc.save(output_pdf_path, garbage=4, ...) returns.
StructuralSave ==
    /\ pc = "save"
    /\ \E s \in Sizes :
          /\ file' = Complete(1, s)
          /\ last_good' = Complete(1, s)
    /\ pc' = "pikepdf"
    /\ UNCHANGED <<inputs, plan, output_size, failure, history, result,
                   reported>>
    /\ UNCHANGED handles

\* doc.save raises, before or while writing.
StructuralSaveFails ==
    /\ pc = "save"
    /\ \/ file' = file
       \/ \E s \in 0..MaxSize : file' = Partial(1, s)
    /\ Raise("save")
    /\ UNCHANGED <<inputs, plan, last_good, output_size, history, result,
                   reported>>
    /\ UNCHANGED handles

\* "with Pdf.open(output_pdf_path) as pdf: pdf.save(output_pdf_path, ...)"
Stage2 ==
    /\ pc = "pikepdf"
    /\ \E s \in Sizes :
          /\ file' = Complete(2, s)
          /\ last_good' = Complete(2, s)
    /\ stage_ran' = stage_ran \cup {2}
    /\ pc' = "measure"
    /\ UNCHANGED <<inputs, plan, output_size, failure, stage_failed,
                   evaluated, size12, test4, result, reported>>
    \* the with block releases pdf
    /\ handles' = Release("stage2_pdf", Acquire("stage2_pdf", handles))

\* Stage2Fails without its "except Exception": the exception reaches the
\* outer handler of create_booklet_pdf.
Stage2FailsPropagates ==
    /\ pc = "pikepdf"
    /\ \/ file' = file
       \/ \E s \in 0..MaxSize : file' = Partial(2, s)
    /\ stage_ran' = stage_ran \cup {2}
    /\ stage_failed' = stage_failed \cup {2}
    /\ pc' = "failed"
    /\ UNCHANGED <<inputs, plan, last_good, output_size, failure, evaluated,
                   size12, test4, result, reported>>
    /\ handles' = Release("stage2_pdf", Acquire("stage2_pdf", handles))

\* Pdf.open or pdf.save raises: st.warning, and the function returns True.
Stage2Fails ==
    /\ pc = "pikepdf"
    /\ \/ file' = file
       \/ \E s \in 0..MaxSize : file' = Partial(2, s)
    /\ stage_ran' = stage_ran \cup {2}
    /\ stage_failed' = stage_failed \cup {2}
    /\ pc' = "measure"
    /\ UNCHANGED <<inputs, plan, last_good, output_size, failure, evaluated,
                   size12, test4, result, reported>>
    \* the with block releases pdf, if Pdf.open returned it
    /\ handles' = Release("stage2_pdf", Acquire("stage2_pdf", handles))

\* ----------------------------------------------------------------- main
\* "if success: output_size = os.path.getsize(output_pdf_path)"
Measure ==
    /\ pc = "measure"
    /\ output_size' = file.size
    /\ size12' = file.size
    /\ pc' = "test3"
    /\ UNCHANGED <<inputs, plan, file, last_good, failure, stage_ran,
                   stage_failed, evaluated, test4, result, reported>>
    /\ UNCHANGED handles

\* "if output_size > original_size * 2 and image_quality < 100:"
TestStage3 ==
    /\ pc = "test3"
    /\ evaluated' = evaluated \cup {3}
    /\ pc' = IF stage3_condition(output_size, original_size, image_quality)
             THEN "stage3" ELSE "test4"
    /\ UNCHANGED <<inputs, plan, file, last_good, output_size, failure,
                   stage_ran, stage_failed, size12, test4, result, reported>>
    /\ UNCHANGED handles

\* fitz.open, the image loop, doc.save, doc.close and the re-measurement.
Stage3 ==
    /\ pc = "stage3"
    /\ \E s \in Sizes :
          /\ file' = Complete(3, s)
          /\ last_good' = Complete(3, s)
          /\ output_size' = s
    /\ stage_ran' = stage_ran \cup {3}
    /\ pc' = "test4"
    /\ UNCHANGED <<inputs, plan, failure, stage_failed, evaluated, size12,
                   test4, result, reported>>
    \* doc = fitz.open(output_pdf_path) ... doc.close()
    /\ handles' = Release("stage3_doc", Acquire("stage3_doc", handles))

\* fitz.open or doc.save raises: st.warning; output_size keeps its value.
Stage3Fails ==
    /\ pc = "stage3"
    /\ \/ \* fitz.open raises: no handle was opened
          /\ file' = file
          /\ handles' = handles
       \/ \* doc.save raises: doc.close() is skipped
          /\ \/ file' = file
             \/ \E s \in 0..MaxSize : file' = Partial(3, s)
          /\ handles' = Acquire("stage3_doc", handles)
    /\ stage_ran' = stage_ran \cup {3}
    /\ stage_failed' = stage_failed \cup {3}
    /\ pc' = "test4"
    /\ UNCHANGED <<inputs, plan, last_good, output_size, failure, evaluated,
                   size12, test4, result, reported>>

\* "if output_size > original_size * 3:"
TestStage4 ==
    /\ pc = "test4"
    /\ evaluated' = evaluated \cup {4}
    /\ test4' = [used |-> output_size, on_disk |-> file.size,
                 run |-> stage4_condition(output_size, original_size)]
    /\ pc' = IF stage4_condition(output_size, original_size)
             THEN "stage4" ELSE "report"
    /\ UNCHANGED <<inputs, plan, file, last_good, output_size, failure,
                   stage_ran, stage_failed, size12, result, reported>>
    /\ UNCHANGED handles

\* Pdf.open, del Metadata, pdf.save(linearize=True, ...), re-measurement.
Stage4 ==
    /\ pc = "stage4"
    /\ \E s \in Sizes :
          /\ file' = Complete(4, s)
          /\ last_good' = Complete(4, s)
          /\ output_size' = s
    /\ stage_ran' = stage_ran \cup {4}
    /\ pc' = "report"
    /\ UNCHANGED <<inputs, plan, failure, stage_failed, evaluated, size12,
                   test4, result, reported>>
    \* the with block releases pdf
    /\ handles' = Release("stage4_pdf", Acquire("stage4_pdf", handles))

\* Pdf.open or pdf.save raises: st.warning; output_size keeps its value.
Stage4Fails ==
    /\ pc = "stage4"
    /\ \/ file' = file
       \/ \E s \in 0..MaxSize : file' = Partial(4, s)
    /\ stage_ran' = stage_ran \cup {4}
    /\ stage_failed' = stage_failed \cup {4}
    /\ pc' = "report"
    /\ UNCHANGED <<inputs, plan, last_good, output_size, failure, evaluated,
                   size12, test4, result, reported>>
    \* the with block releases pdf, if Pdf.open returned it
    /\ handles' = Release("stage4_pdf", Acquire("stage4_pdf", handles))

\* size_ratio, size_status, st.success and st.info.
Report ==
    /\ pc = "report"
    /\ reported' = [size |-> output_size, original |-> original_size,
                    status |-> size_status(output_size, original_size)]
    /\ result' = "success"
    /\ pc' = "done"
    /\ UNCHANGED <<inputs, plan, file, last_good, output_size, failure,
                   history>>
    /\ UNCHANGED handles

\* "except Exception as e: st.error(...)" of main, reached by the raise.
ReportError ==
    /\ pc = "failed"
    /\ result' = "error"
    /\ pc' = "done"
    /\ UNCHANGED <<inputs, plan, file, last_good, output_size, failure,
                   history, reported>>
    /\ UNCHANGED handles

Next ==
    \/ OpenSource
    \/ OpenSourceFails
    \/ PlanSingle
    \/ PlanSplit
    \/ PlanDivisionByZero
    \/ RenderSpread
    \/ RenderFails
    \/ NextSignature
    \/ EndRender
    \/ StructuralSave
    \/ StructuralSaveFails
    \/ Stage2
    \/ Stage2Fails
    \/ Measure
    \/ TestStage3
    \/ Stage3
    \/ Stage3Fails
    \/ TestStage4
    \/ Stage4
    \/ Stage4Fails
    \/ Report
    \/ ReportError

Spec == Init /\ [][Next]_vars

\* create_booklet_pdf up to the end of its spread loop, for any geometry.
NextRender ==
    \/ OpenSource
    \/ OpenSourceFails
    \/ PlanSingle
    \/ PlanSplit
    \/ PlanDivisionByZero
    \/ RenderSpread
    \/ RenderFails
    \/ NextSignature
    \/ EndRender

SpecRender == InitGeometry /\ [][NextRender]_vars

\* ------------------------------------------------------------ properties
\* Positions at which the spread loop of create_booklet_pdf has finished.
AfterRender == {"save", "pikepdf", "measure", "test3", "stage3", "test4",
                "stage4", "report", "done"}

\* The spread loop has run to its end (the structural save may have raised).
RenderFinished ==
    \/ pc \in AfterRender /\ failure = "none"
    \/ failure = "save"

\* The spreads that signature k contributed to the output, in order.
SpreadsOf(k) == SelectSeq(doc, LAMBDA d : d.sig = k)

\* How often page index x occurs over the left and right positions of s.
Occurrences(s, x) ==
    Cardinality({j \in 1..Len(s) : s[j].left_idx = x})
      + Cardinality({j \in 1..Len(s) : s[j].right_idx = x})

RECURSIVE SumLengths(_)
SumLengths(rs) ==
    IF rs = <<>> THEN 0 ELSE (Head(rs)[2] - Head(rs)[1]) + SumLengths(Tail(rs))

C2_RangesPartition ==
    (use_signatures /\ signatures > 0 /\ pc \notin {"open", "plan"}
       /\ failure # "open") =>
        LET rs == signature_ranges
        IN  /\ failure = "none" \/ failure \in {"render", "save"}
            /\ (total_pages > 0) => Len(rs) > 0
            /\ (Len(rs) > 0) => /\ rs[1][1] = 0
                                /\ rs[Len(rs)][2] = total_pages
            /\ \A k \in 1..Len(rs) :
                  /\ rs[k][2] - rs[k][1] > 0
                  /\ (rs[k][2] - rs[k][1]) % 4 = 0
                  /\ rs[k][2] <= total_pages
            /\ \A k \in 1..(Len(rs) - 1) : rs[k + 1][1] = rs[k][2]
            /\ SumLengths(rs) = total_pages

\* C2 witness: a signatures value that is no multiple of 4 and does not
\* divide the padded page count: 6 is rounded to 8, 12 pages split 8 + 4.
C2_Witness ==
    /\ pc = "render"
    /\ use_signatures
    /\ signatures = 6
    /\ total_pages = 12
    /\ signature_ranges = << <<0, 8>>, <<8, 12>> >>

\* C3: the padded page count is the smallest multiple of 4 that is not
\* below the page count: a multiple of 4, >= page count, less than 4 above.
C3_PaddedPageCount ==
    (pc # "open" /\ failure # "open") =>
        /\ total_pages % 4 = 0
        /\ total_pages >= input_page_count
        /\ total_pages - input_page_count < 4

\* C3 witness: a page count that is no multiple of 4 has been padded.
C3_Witness ==
    /\ pc = "plan"
    /\ input_page_count = 5
    /\ total_pages = 8

\* C4: in every spread of the output, the left (right) half holds a source
\* page exactly when the pair's left (right) index is below the input page
\* count, the page held is the one with that index, and the half is blank
\* otherwise.
C4_PlacedIffReal ==
    \A j \in 1..Len(doc) :
        /\ (doc[j].left # Blank) <=> (doc[j].left_idx < input_page_count)
        /\ (doc[j].left # Blank) => (doc[j].left = doc[j].left_idx)
        /\ (doc[j].right # Blank) <=> (doc[j].right_idx < input_page_count)
        /\ (doc[j].right # Blank) => (doc[j].right = doc[j].right_idx)

\* C4 witness: the finished output of a 5-page source holds a spread with a
\* blank left half beside a placed right half, and a spread with both placed.
C4_Witness ==
    /\ pc = "save"
    /\ input_page_count = 5
    /\ \E j \in 1..Len(doc) : doc[j].left = Blank /\ doc[j].right = doc[j].right_idx
    /\ \E j \in 1..Len(doc) : doc[j].left = 4 /\ doc[j].right = 3

\* C5: for every signatures value that is 0 or negative, the planning step
\* itself raises: no signature range is computed, no output page is created
\* and no output file is written.
C5_NonPositiveSignaturesRejected ==
    (use_signatures /\ signatures <= 0 /\ pc \notin {"open", "plan"}
       /\ failure # "open") =>
        /\ failure = "plan"
        /\ signature_ranges = <<>>
        /\ doc = <<>>
        /\ file = NoFile

\* C6: stage 3 never runs when image optimisation is off, nor when the size
\* measured after stages 1-2 is at most twice the original size; and when
\* stage 3 did not run, the size reported is the one measured after stages
\* 1-2 (beside the original size), unless stage 4 re-measured it.
C6_Stage3OnlyWhenEnabledAndLarge ==
    /\ (pc = "stage3" \/ 3 \in stage_ran) =>
          /\ optimize_images
          /\ size12 > 2 * original_size
    /\ (result = "success" /\ 3 \notin stage_ran
          /\ 4 \notin (stage_ran \ stage_failed)) =>
          /\ reported.size = size12
          /\ reported.original = original_size

\* C6 witness: a finished conversion with optimisation off whose output was
\* measured at more than twice the original size, and no stage 3.
C6_Witness ==
    /\ result = "success"
    /\ ~optimize_images
    /\ size12 > 2 * original_size
    /\ size12 <= 3 * original_size
    /\ 3 \notin stage_ran
    /\ reported.size = size12

\* C7: whenever the size measured after stages 1-2 exceeds twice the
\* original size and image optimisation is on, stage 3 runs, for every
\* image quality of 25..100.
C7_Stage3RunsWhenEnabledAndLarge ==
    (3 \in evaluated /\ optimize_images /\ size12 > 2 * original_size) =>
        (pc = "stage3" \/ 3 \in stage_ran)

\* C8: the size used in the stage-4 test equals the size of the output
\* file at that moment, on every path through stage 3, and stage 4 runs
\* exactly when that size exceeds 3 times the original size.
C8_Stage4TestUsesCurrentSize ==
    (4 \in evaluated) =>
        /\ test4.used = test4.on_disk
        /\ test4.run <=> (test4.on_disk > 3 * original_size)
        /\ test4.run <=> (pc = "stage4" \/ 4 \in stage_ran)

\* C9: a stage 2, 3 or 4 that raises is not fatal: the request is never
\* turned into an error by it, it goes on to evaluate both later stage
\* conditions and ends as a success with the size metrics reported; a
\* failure of stage 1 (open, planning, render, structural save) ends as an
\* error with nothing reported; and no run stops before one of these ends.
C9_OptimiserFailuresNonFatal ==
    /\ (stage_failed # {}) =>
          /\ failure = "none"
          /\ pc # "failed"
          /\ result # "error"
    /\ (pc = "done" /\ failure = "none") =>
          /\ result = "success"
          /\ evaluated = {3, 4}
          /\ reported.size = output_size
          /\ reported.original = original_size
          /\ reported.status \in {"Good", "Large"}
    /\ (failure # "none") =>
          /\ result # "success"
          /\ reported = NoReport
          /\ stage_ran = {}
          /\ pc \in {"failed", "done"}
    /\ (pc = "done" /\ failure # "none") => result = "error"
    /\ (pc # "done") => ENABLED Next

\* C9 witness: a conversion in which stages 2, 3 and 4 all raised and which
\* ended as a success.
C9_Witness ==
    /\ pc = "done"
    /\ stage_failed = {2, 3, 4}
    /\ result = "success"

\* C10: when stage 2, 3 or 4 has raised, the output file handed to the
\* caller is exactly the complete file the last successful stage produced.
C10_FailedStageLeavesFileIntact ==
    (result = "success" /\ stage_failed # {}) =>
        /\ file = last_good
        /\ file.state = "complete"

\* C11: on every exit path of a conversion (normal return, an exception in
\* stage 1, an exception in an optimiser stage), every document handle that
\* was opened has been released when the conversion ends.
C11_HandlesReleasedAtEnd ==
    (pc = "done") => (handles = {})

Max(a, b) == IF a > b THEN a ELSE b

\* A drawn line shares a stretch of positive length with a closed rectangle
\* (lines and rectangles are axis-parallel, <<x0, y0, x1, y1>>).
LineOverlaps(ln, rect) ==
    LET x0 == Min(ln[1], ln[3])
        x1 == Max(ln[1], ln[3])
        y0 == Min(ln[2], ln[4])
        y1 == Max(ln[2], ln[4])
    IN  \/ /\ y0 = y1
           /\ rect[2] <= y0 /\ y0 <= rect[4]
           /\ Min(x1, rect[3]) - Max(x0, rect[1]) > 0
        \/ /\ x0 = x1
           /\ rect[1] <= x0 /\ x0 <= rect[3]
           /\ Min(y1, rect[4]) - Max(y0, rect[2]) > 0

\* A drawn line lies on the spread it was drawn on.
LineOnSpread(ln, d) ==
    /\ 0 <= Min(ln[1], ln[3]) /\ Max(ln[1], ln[3]) <= d.width
    /\ 0 <= Min(ln[2], ln[4]) /\ Max(ln[2], ln[4]) <= d.height

\* The rectangles of the spread's two halves, as the program computes them.
LeftRect == left_rect(bleed * Scale, page_dimensions(page_size)[1],
                      page_dimensions(page_size)[2])
RightRect == right_rect(bleed * Scale, page_dimensions(page_size)[1],
                        page_dimensions(page_size)[2], binding_margin * Scale)

\* C12: on every spread rendered with crop marks, for every binding margin
\* and bleed >= 0, exactly 16 lines are drawn, none of them overlaps the
\* rectangle of a placed left or right page, and every line lies in the
\* bleed/margin area: on the spread and off both page rectangles.
C12_CropMarksClearOfContent ==
    crop_marks =>
        \A j \in 1..Len(doc) :
            /\ Len(doc[j].lines) = 16
            /\ \A k \in 1..Len(doc[j].lines) :
                  LET ln == doc[j].lines[k]
                  IN  /\ (doc[j].left # Blank) => ~LineOverlaps(ln, LeftRect)
                      /\ (doc[j].right # Blank) => ~LineOverlaps(ln, RightRect)
                      /\ LineOnSpread(ln, doc[j])
                      /\ ~LineOverlaps(ln, LeftRect)
                      /\ ~LineOverlaps(ln, RightRect)

\* How often source page x is placed over the whole output document.
PlacedCount(x) ==
    Cardinality({j \in 1..Len(doc) : doc[j].left = x})
      + Cardinality({j \in 1..Len(doc) : doc[j].right = x})

\* C13: for every source of at least one page and every signature setting
\* (none, or any positive size), once the spread loop has finished every
\* source page index of [0, input_page_count) is placed exactly once over
\* the whole output, and the output has total_pages / 2 spreads.
C13_EveryPagePlacedOnce ==
    (RenderFinished /\ input_page_count >= 1
       /\ (~use_signatures \/ signatures > 0)) =>
        /\ \A x \in 0..(input_page_count - 1) : PlacedCount(x) = 1
        /\ 2 * Len(doc) = total_pages

\* C13 witness: a 9-page source split into signatures of 4: three
\* signatures, six spreads, the render finished.
C13_Witness ==
    /\ pc = "save"
    /\ input_page_count = 9
    /\ use_signatures
    /\ signatures = 4
    /\ Len(signature_ranges) = 3
    /\ Len(doc) = 6

\* C14 (as claimed): the status reported is Good exactly when the final
\* size is below 3 times the original size and Large otherwise, and
\* whenever it is Large, stage 4 was attempted in that conversion.
C14_LargeImpliesStage4Attempted ==
    (result = "success") =>
        /\ (reported.status = "Good") <=> (reported.size < 3 * reported.original)
        /\ (reported.status = "Large") <=> (reported.size >= 3 * reported.original)
        /\ (reported.status = "Large") => (4 \in stage_ran)

\* C14 (amended): the status reported is Good exactly when the final size
\* is below 3 times the original size and Large otherwise, and whenever it
\* is Large, either stage 4 was attempted in that conversion or the final
\* size is exactly 3 times the original size.
C14_LargeImpliesStage4OrBoundary ==
    (result = "success") =>
        /\ reported.size = output_size
        /\ reported.original = original_size
        /\ (reported.status = "Good") <=> (reported.size < 3 * reported.original)
        /\ (reported.status = "Large") <=> (reported.size >= 3 * reported.original)
        /\ (reported.status = "Large") =>
              (4 \in stage_ran \/ reported.size = 3 * reported.original)

\* C14 witness: a conversion reported Large after stage 4 was attempted.
C14_Witness ==
    /\ result = "success"
    /\ reported.status = "Large"
    /\ reported.size > 3 * reported.original
    /\ 4 \in stage_ran

====
